---- MODULE Spec2Model ----
(***************************************************************************)
(* Tokenizer routing and cache layer (src/lib/tokenizers.ts).              *)
(*                                                                         *)
(* Strings are sequences of one-character strings, so that toLowerCase     *)
(* and String.prototype.includes are computed character by character.      *)
(* An async function runs synchronously up to its first await and resumes  *)
(* in a later turn: every turn is one action.                              *)
(***************************************************************************)
EXTENDS FiniteSets, Integers, Sequences, TLC

\* ------------------------------------------------------------------ bounds
MaxTextLen == 5   \* length of the longest text a caller passes
MaxLoads == 2     \* encoders get_encoding builds in one run
MaxClock == 1     \* largest value Date.now() returns
MaxMsgs == 2      \* length of the longest chat message list
MaxRawLen == 2    \* length of the longest raw value handed to a helper

\* ------------------------------------------------------------- characters
UpperCase == <<"A", "B", "C", "D", "E", "F", "G", "H", "I", "J", "K", "L", "M",
               "N", "O", "P", "Q", "R", "S", "T", "U", "V", "W", "X", "Y", "Z">>
LowerCase == <<"a", "b", "c", "d", "e", "f", "g", "h", "i", "j", "k", "l", "m",
               "n", "o", "p", "q", "r", "s", "t", "u", "v", "w", "x", "y", "z">>

LowerChar(c) ==
  IF \E i \in 1..Len(UpperCase) : UpperCase[i] = c
  THEN LowerCase[CHOOSE i \in 1..Len(UpperCase) : UpperCase[i] = c]
  ELSE c

\* String.prototype.toLowerCase
toLowerCase(s) == [i \in 1..Len(s) |-> LowerChar(s[i])]

\* String.prototype.includes
includes(s, p) ==
  \E i \in 0..(Len(s) - Len(p)) : SubSeq(s, i + 1, i + Len(p)) = p

\* Array.prototype.some((p) => lower.includes(p))
some_includes(prefixes, lower) ==
  \E i \in 1..Len(prefixes) : includes(lower, prefixes[i])

\* ------------------------------------------------------ model identifiers
gpt_4 == <<"g", "p", "t", "-", "4">>
GPT_4 == <<"G", "P", "T", "-", "4">>
gpt_4o == <<"g", "p", "t", "-", "4", "o">>
llama_2_7b == <<"l", "l", "a", "m", "a", "-", "2", "-", "7", "b">>
Llama_GPT == <<"L", "l", "a", "m", "a", "-", "G", "P", "T">>
claude == <<"c", "l", "a", "u", "d", "e">>
mistral_7b == <<"m", "i", "s", "t", "r", "a", "l", "-", "7", "b">>
constructor == <<"c", "o", "n", "s", "t", "r", "u", "c", "t", "o", "r">>

\* the identifiers callers pass: to the functions that take the encoder of
\* the identifier itself, and to the router
DirectModels == {gpt_4, GPT_4, gpt_4o, constructor}
AutoModels == {gpt_4, llama_2_7b, Llama_GPT, claude}
LlamaModels == {llama_2_7b, mistral_7b}
ChatModels == {gpt_4, gpt_4o}
Models == DirectModels \cup AutoModels

\* ------------------------------------------------------------ ENCODING_MAP
Schemes == {"cl100k_base", "o200k_base", "p50k_base", "r50k_base"}

ENCODING_MAP ==
  << <<<<"g", "p", "t", "-", "4">>, "cl100k_base">>,
     <<<<"g", "p", "t", "-", "4", "-", "t", "u", "r", "b", "o">>, "cl100k_base">>,
     <<<<"g", "p", "t", "-", "4", "o">>, "o200k_base">>,
     <<<<"g", "p", "t", "-", "4", "o", "-", "m", "i", "n", "i">>, "o200k_base">>,
     <<<<"g", "p", "t", "-", "3", ".", "5", "-", "t", "u", "r", "b", "o">>, "cl100k_base">>,
     <<<<"g", "p", "t", "-", "3", ".", "5", "-", "t", "u", "r", "b", "o", "-", "1", "6", "k">>, "cl100k_base">>,
     <<<<"t", "e", "x", "t", "-", "e", "m", "b", "e", "d", "d", "i", "n", "g", "-", "a", "d", "a", "-", "0", "0", "2">>, "cl100k_base">>,
     <<<<"t", "e", "x", "t", "-", "e", "m", "b", "e", "d", "d", "i", "n", "g", "-", "3", "-", "s", "m", "a", "l", "l">>, "cl100k_base">>,
     <<<<"t", "e", "x", "t", "-", "e", "m", "b", "e", "d", "d", "i", "n", "g", "-", "3", "-", "l", "a", "r", "g", "e">>, "cl100k_base">>,
     <<<<"t", "e", "x", "t", "-", "d", "a", "v", "i", "n", "c", "i", "-", "0", "0", "3">>, "p50k_base">>,
     <<<<"t", "e", "x", "t", "-", "d", "a", "v", "i", "n", "c", "i", "-", "0", "0", "2">>, "p50k_base">>,
     <<<<"d", "a", "v", "i", "n", "c", "i">>, "r50k_base">>,
     <<<<"c", "u", "r", "i", "e">>, "r50k_base">>,
     <<<<"b", "a", "b", "b", "a", "g", "e">>, "r50k_base">>,
     <<<<"a", "d", "a">>, "r50k_base">> >>

\* ENCODING_MAP is an object literal: besides its own keys, a property read
\* finds the members it inherits from Object.prototype (functions, or for
\* __proto__ the prototype object), all of them truthy and none a scheme name.
ObjectPrototypeKeys ==
  { <<"c", "o", "n", "s", "t", "r", "u", "c", "t", "o", "r">>,
    <<"t", "o", "S", "t", "r", "i", "n", "g">>,
    <<"v", "a", "l", "u", "e", "O", "f">>,
    <<"h", "a", "s", "O", "w", "n", "P", "r", "o", "p", "e", "r", "t", "y">>,
    <<"i", "s", "P", "r", "o", "t", "o", "t", "y", "p", "e", "O", "f">>,
    <<"p", "r", "o", "p", "e", "r", "t", "y", "I", "s", "E", "n", "u", "m", "e", "r", "a", "b", "l", "e">>,
    <<"t", "o", "L", "o", "c", "a", "l", "e", "S", "t", "r", "i", "n", "g">>,
    <<"_", "_", "p", "r", "o", "t", "o", "_", "_">> }

Undefined == "undefined"
Inherited == "[object inherited from Object.prototype]"

IsOwnKey(k) == \E i \in 1..Len(ENCODING_MAP) : ENCODING_MAP[i][1] = k

OwnValue(k) == ENCODING_MAP[CHOOSE i \in 1..Len(ENCODING_MAP) : ENCODING_MAP[i][1] = k][2]

\* the property read ENCODING_MAP[k]
EncodingMapGet(k) ==
  IF IsOwnKey(k) THEN OwnValue(k)
  ELSE IF k \in ObjectPrototypeKeys THEN Inherited
  ELSE Undefined

\* ENCODING_MAP[key] || ENCODING_MAP[model] || "cl100k_base"
EncodingName(key, model) ==
  IF EncodingMapGet(key) # Undefined THEN EncodingMapGet(key)
  ELSE IF EncodingMapGet(model) # Undefined THEN EncodingMapGet(model)
  ELSE "cl100k_base"

\* --------------------------------------------------------------- tiktoken
\* The encoder resource of the tiktoken package: get_encoding(name) builds
\* an encoder for a known scheme name and throws for anything else.  Each
\* scheme has its own vocabulary of pieces; encode cuts the text greedily
\* into the longest pieces of the vocabulary and returns their ranks.
BaseVocab == << <<"a">>, <<"b">>, <<"u">>, <<"s">>, <<"e">>, <<"r">> >>

Vocab(name) ==
  CASE name = "r50k_base" -> BaseVocab
    [] name = "p50k_base" -> BaseVocab \o << <<"a", "a">>, <<"e", "r">> >>
    [] name = "cl100k_base" ->
         BaseVocab \o << <<"a", "a">>, <<"a", "b">>, <<"u", "s", "e", "r">> >>
    [] name = "o200k_base" ->
         BaseVocab \o << <<"a", "a">>, <<"a", "b">>, <<"a", "b", "a">>,
                         <<"u", "s", "e", "r">> >>

IsPrefix(p, s) == Len(p) <= Len(s) /\ SubSeq(s, 1, Len(p)) = p

LongestPiece(vocab, text) ==
  CHOOSE i \in 1..Len(vocab) :
    /\ IsPrefix(vocab[i], text)
    /\ \A j \in 1..Len(vocab) : IsPrefix(vocab[j], text) => Len(vocab[j]) <= Len(vocab[i])

RECURSIVE EncodeTokens(_, _)
EncodeTokens(vocab, text) ==
  IF text = <<>> THEN <<>>
  ELSE LET i == LongestPiece(vocab, text)
       IN  <<i - 1>> \o EncodeTokens(vocab, SubSeq(text, Len(vocab[i]) + 1, Len(text)))

\* An element of a Uint32Array is held as its two 16-bit halves: the number
\* n modulo 2^32 is hi * 65536 + lo.
Halves(n) == [hi |-> (n \div 65536) % 65536, lo |-> n % 65536]
NumberOf(element) == element.hi * 65536 + element.lo

\* new Uint32Array(numbers): every element is taken modulo 2^32
Uint32Array(numbers) ==
  [shape |-> "Uint32Array", data |-> [i \in 1..Len(numbers) |-> Halves(numbers[i])]]

\* Tiktoken.encode returns the ranks in a Uint32Array
Encode(name, text) == Uint32Array(EncodeTokens(Vocab(name), text))

\* ------------------------------------------------------------- normalizer
\* A raw value is its shape and its elements.  A function that may throw
\* gives a record: whether it threw, and the value it returned otherwise.
TypedArrays == {"Uint32Array", "Uint16Array", "Uint8Array"}

\* Array.from throws a TypeError for null and undefined only
ArrayFromThrows(raw) == raw.shape \in {"null", "undefined"}

\* Array.from copies the elements of an array, a typed array or any other
\* iterable in order; a value with neither an iterator nor a length (a
\* number, a plain object) gives the empty array
ArrayFrom(raw) ==
  IF raw.shape = "Uint32Array"
  THEN [i \in 1..Len(raw.data) |-> NumberOf(raw.data[i])]
  ELSE IF raw.shape \in {"Array", "iterable", "Uint16Array", "Uint8Array"}
  THEN [i \in 1..Len(raw.data) |-> raw.data[i]]
  ELSE <<>>

\* normalizeEncodeResult without the try block around the last Array.from
normalizeEncodeResult_noCatch(raw) ==
  IF raw.shape = "Array" THEN [threw |-> FALSE, value |-> raw.data]
  ELSE IF raw.shape \in TypedArrays THEN [threw |-> FALSE, value |-> ArrayFrom(raw)]
  ELSE IF ArrayFromThrows(raw) THEN [threw |-> TRUE, value |-> <<>>]
  ELSE [threw |-> FALSE, value |-> ArrayFrom(raw)]

normalizeEncodeResult(raw) ==
  IF raw.shape = "Array" THEN [threw |-> FALSE, value |-> raw.data]
  ELSE IF raw.shape \in TypedArrays THEN [threw |-> FALSE, value |-> ArrayFrom(raw)]
  ELSE IF ArrayFromThrows(raw) THEN [threw |-> FALSE, value |-> <<>>]
  ELSE [threw |-> FALSE, value |-> ArrayFrom(raw)]

\* the UTF-8 byte of each character of the vocabulary
Utf8 ==
  ("a" :> 97) @@ ("b" :> 98) @@ ("u" :> 117) @@ ("s" :> 115) @@ ("e" :> 101) @@
  ("r" :> 114)

\* new TextDecoder("utf-8").decode(bytes): a byte that is no character
\* decodes to the replacement character; it never throws
ReplacementChar == "U+FFFD"
TextDecoder_decode(bytes) ==
  [i \in 1..Len(bytes) |->
    IF \E ch \in DOMAIN Utf8 : Utf8[ch] = bytes[i]
    THEN CHOOSE ch \in DOMAIN Utf8 : Utf8[ch] = bytes[i]
    ELSE ReplacementChar]

\* String(x) throws a TypeError for a value that cannot be converted to a
\* primitive
StringThrows(raw) == raw.shape = "unprintable"

\* String(x) for null, for undefined and for an array or typed array of
\* numbers (the elements joined by commas)
RECURSIVE Digits(_)
Digits(n) ==
  IF n < 10 THEN << <<"0", "1", "2", "3", "4", "5", "6", "7", "8", "9">>[n + 1] >>
  ELSE Digits(n \div 10) \o Digits(n % 10)

RECURSIVE Join(_)
Join(numbers) ==
  IF numbers = <<>> THEN <<>>
  ELSE IF Len(numbers) = 1 THEN Digits(numbers[1])
  ELSE Digits(numbers[1]) \o <<",">> \o Join(Tail(numbers))

String(raw) ==
  CASE raw.shape = "null" -> <<"n", "u", "l", "l">>
    [] raw.shape = "undefined" -> <<"u", "n", "d", "e", "f", "i", "n", "e", "d">>
    [] raw.shape = "string" -> raw.data
    [] OTHER -> Join(raw.data)

\* normalizeDecodeResult without the TextDecoder branch
normalizeDecodeResult_noDecoder(raw) ==
  IF raw.shape = "string" THEN [threw |-> FALSE, value |-> raw.data]
  ELSE IF StringThrows(raw) THEN [threw |-> FALSE, value |-> <<>>]
  ELSE [threw |-> FALSE, value |-> String(raw)]

normalizeDecodeResult(raw) ==
  IF raw.shape = "string" THEN [threw |-> FALSE, value |-> raw.data]
  ELSE IF raw.shape = "Uint8Array"
  THEN [threw |-> FALSE, value |-> TextDecoder_decode(raw.data)]
  ELSE IF StringThrows(raw) THEN [threw |-> FALSE, value |-> <<>>]
  ELSE [threw |-> FALSE, value |-> String(raw)]

\* Tiktoken.decode(tokens) returns the bytes of the pieces in a Uint8Array;
\* it throws for a token that is no rank of the vocabulary
Decode_throws(name, tokens) ==
  \E i \in 1..Len(tokens.data) :
    tokens.data[i].hi # 0 \/ tokens.data[i].lo + 1 > Len(Vocab(name))

RECURSIVE DecodeBytes(_, _)
DecodeBytes(vocab, data) ==
  IF data = <<>> THEN <<>>
  ELSE [i \in 1..Len(vocab[data[1].lo + 1]) |-> Utf8[vocab[data[1].lo + 1][i]]]
       \o DecodeBytes(vocab, Tail(data))

Decode(name, tokens) ==
  [shape |-> "Uint8Array", data |-> DecodeBytes(Vocab(name), tokens.data)]

\* ----------------------------------------------------------------- inputs
\* the texts callers pass: the empty text and prefixes of a sample "abaaba..."
SampleChar(i) == IF i % 3 = 2 THEN "b" ELSE "a"
SampleText(n) == [i \in 1..n |-> SampleChar(i)]
Texts == {SampleText(0), SampleText(3), SampleText(MaxTextLen)}

\* the chat messages callers pass
Roles == { <<"u", "s", "e", "r">> }
Contents == {SampleText(0), SampleText(3)}
ChatMessages == [role : Roles, content : Contents]
MessageLists == UNION { [1..n -> ChatMessages] : n \in 0..MaxMsgs }

\* the raw values handed to the normalizers and to the singleton's decode
ListsOf(S) == UNION { [1..n -> S] : n \in 0..MaxRawLen }
RawEncodeResults ==
  [shape : {"Array", "iterable", "Uint16Array", "Uint8Array"}, data : ListsOf({0, 7, 200})]
    \cup [shape : {"Uint32Array"}, data : ListsOf({Halves(0), Halves(7), Halves(65542)})]
    \cup [shape : {"null", "undefined", "number"}, data : {<<>>}]
RawDecodeResults ==
  [shape : {"string"}, data : Texts \cup Roles]
    \cup [shape : {"Uint8Array"}, data : ListsOf({97, 98, 255})]
    \cup [shape : {"Array"}, data : ListsOf({0, 7, 200})]
    \cup [shape : {"number"}, data : {<<0>>, <<7>>, <<200>>}]
    \cup [shape : {"null", "undefined", "unprintable"}, data : {<<>>}]
\* ranks of cl100k_base (0 and 6), a number above every rank, and a
\* negative one, which wraps to 2^32 - 1
TokenLists == ListsOf({0, 6, 65542, -1})

\* the values of the string functions on the inputs, computed once
KeyOf == [m \in Models |-> toLowerCase(m)]
NameOf == [m \in Models |-> EncodingName(toLowerCase(m), m)]
NormalizedOf ==
  [name \in Schemes |->
    [t \in Texts \cup Roles \cup Contents |->
      normalizeEncodeResult(Encode(name, t)).value]]

\* ------------------------------------------------------------------ state
VARIABLES
  tiktokenCache,        \* Map key -> entry, as the sequence of its entries in insertion order
  llamaTokenizerCache,  \* the approximate singleton, or null
  encodings,            \* every Tiktoken object get_encoding has built: its scheme, and whether free() was invoked on it
  calls,                \* the calls of the async functions: arguments, position, result
  stats,                \* what getCacheStats returned, while nothing has run since
  probe                 \* what a helper returned and for which argument, while nothing has run since

vars == <<tiktokenCache, llamaTokenizerCache, encodings, calls, stats, probe>>

Null == [loaded |-> FALSE, encoding |-> 0]

NoTokens == -1

Idle ==
  [op |-> "none", pc |-> "idle", text |-> <<>>, model |-> <<>>, messages |-> <<>>,
   strategy |-> "", inner |-> <<>>, loads |-> 0, loadThrew |-> FALSE,
   encodeThrew |-> FALSE, decodeThrew |-> FALSE, encoding |-> 0, out |-> "pending",
   tokens |-> NoTokens, equal |-> FALSE]

Init ==
  /\ tiktokenCache = <<>>
  /\ llamaTokenizerCache = Null
  /\ encodings = <<>>
  /\ calls = [c \in {1} |-> Idle]
  /\ stats = <<>>
  /\ probe = <<>>

\* -------------------------------------------------------------------- Map
MapHas(m, k) == \E i \in 1..Len(m) : m[i].key = k
MapGet(m, k) == m[CHOOSE i \in 1..Len(m) : m[i].key = k]
MapSet(m, k, v) ==
  IF MapHas(m, k)
  THEN [i \in 1..Len(m) |-> IF m[i].key = k THEN v ELSE m[i]]
  ELSE Append(m, v)
MapKeys(m) == [i \in 1..Len(m) |-> m[i].key]

\* ----------------------------------------------------------- get_encoding
\* get_encoding(name) returns a new Tiktoken object, or throws: always for a
\* name that is no scheme, and whenever the package cannot build the encoder
get_encoding_ok(name, envOk) == name \in Schemes /\ envOk

NewEncoding(heap, name) == Append(heap, [name |-> name, freed |-> FALSE])

\* loadTiktoken with the cache keyed by the identifier as the caller wrote it
loadTiktoken_rawKey(model, envOk, dateNow) ==
  IF MapHas(tiktokenCache, model)
  THEN [threw |-> FALSE, encoding |-> MapGet(tiktokenCache, model).encoding,
        cache |-> tiktokenCache, heap |-> encodings]
  ELSE IF get_encoding_ok(NameOf[model], envOk)
  THEN [threw |-> FALSE, encoding |-> Len(encodings) + 1,
        cache |-> MapSet(tiktokenCache, model,
                         [key |-> model, encoding |-> Len(encodings) + 1,
                          model |-> model, loadedAt |-> dateNow]),
        heap |-> NewEncoding(encodings, NameOf[model])]
  ELSE [threw |-> TRUE, encoding |-> 0, cache |-> tiktokenCache, heap |-> encodings]

\* loadTiktoken with the entry stored before get_encoding is called
loadTiktoken_entryFirst(model, envOk, dateNow) ==
  LET key == KeyOf[model] IN
  IF MapHas(tiktokenCache, key)
  THEN [threw |-> FALSE, encoding |-> MapGet(tiktokenCache, key).encoding,
        cache |-> tiktokenCache, heap |-> encodings]
  ELSE IF get_encoding_ok(NameOf[model], envOk)
  THEN [threw |-> FALSE, encoding |-> Len(encodings) + 1,
        cache |-> MapSet(tiktokenCache, key,
                         [key |-> key, encoding |-> Len(encodings) + 1,
                          model |-> model, loadedAt |-> dateNow]),
        heap |-> NewEncoding(encodings, NameOf[model])]
  ELSE [threw |-> TRUE, encoding |-> 0,
        cache |-> MapSet(tiktokenCache, key,
                         [key |-> key, encoding |-> 0, model |-> model,
                          loadedAt |-> dateNow]),
        heap |-> encodings]

\* loadTiktoken without the look-up: every call builds an encoder and
\* stores it under the key
loadTiktoken_noHit(model, envOk, dateNow) ==
  LET key == KeyOf[model] IN
  IF get_encoding_ok(NameOf[model], envOk)
  THEN [threw |-> FALSE, encoding |-> Len(encodings) + 1,
        cache |-> MapSet(tiktokenCache, key,
                         [key |-> key, encoding |-> Len(encodings) + 1,
                          model |-> model, loadedAt |-> dateNow]),
        heap |-> NewEncoding(encodings, NameOf[model])]
  ELSE [threw |-> TRUE, encoding |-> 0, cache |-> tiktokenCache, heap |-> encodings]

\* loadTiktoken writing the entry again, with a new loadedAt, on a hit
loadTiktoken_refresh(model, envOk, dateNow) ==
  LET key == KeyOf[model] IN
  IF MapHas(tiktokenCache, key)
  THEN [threw |-> FALSE, encoding |-> MapGet(tiktokenCache, key).encoding,
        cache |-> MapSet(tiktokenCache, key,
                         [key |-> key, encoding |-> MapGet(tiktokenCache, key).encoding,
                          model |-> model, loadedAt |-> dateNow]),
        heap |-> encodings]
  ELSE IF get_encoding_ok(NameOf[model], envOk)
  THEN [threw |-> FALSE, encoding |-> Len(encodings) + 1,
        cache |-> MapSet(tiktokenCache, key,
                         [key |-> key, encoding |-> Len(encodings) + 1,
                          model |-> model, loadedAt |-> dateNow]),
        heap |-> NewEncoding(encodings, NameOf[model])]
  ELSE [threw |-> TRUE, encoding |-> 0, cache |-> tiktokenCache, heap |-> encodings]

\* loadTiktoken sharing encoders by scheme: on a miss, the new entry takes
\* the encoder of an entry of the same scheme when there is one
loadTiktoken_sharedScheme(model, envOk, dateNow) ==
  LET key == KeyOf[model]
      same == {i \in 1..Len(tiktokenCache) :
                 encodings[tiktokenCache[i].encoding].name = NameOf[model]}
  IN
  IF MapHas(tiktokenCache, key)
  THEN [threw |-> FALSE, encoding |-> MapGet(tiktokenCache, key).encoding,
        cache |-> tiktokenCache, heap |-> encodings]
  ELSE IF same # {}
  THEN LET h == tiktokenCache[CHOOSE i \in same : TRUE].encoding IN
       [threw |-> FALSE, encoding |-> h,
        cache |-> MapSet(tiktokenCache, key,
                         [key |-> key, encoding |-> h, model |-> model,
                          loadedAt |-> dateNow]),
        heap |-> encodings]
  ELSE IF get_encoding_ok(NameOf[model], envOk)
  THEN [threw |-> FALSE, encoding |-> Len(encodings) + 1,
        cache |-> MapSet(tiktokenCache, key,
                         [key |-> key, encoding |-> Len(encodings) + 1,
                          model |-> model, loadedAt |-> dateNow]),
        heap |-> NewEncoding(encodings, NameOf[model])]
  ELSE [threw |-> TRUE, encoding |-> 0, cache |-> tiktokenCache, heap |-> encodings]

\* loadTiktoken over a cache with expiry: the entries loaded before dateNow
\* are dropped before the look-up
loadTiktoken_expiring(model, envOk, dateNow) ==
  LET key == KeyOf[model]
      live == SelectSeq(tiktokenCache, LAMBDA e : e.loadedAt >= dateNow)
  IN
  IF MapHas(live, key)
  THEN [threw |-> FALSE, encoding |-> MapGet(live, key).encoding,
        cache |-> live, heap |-> encodings]
  ELSE IF get_encoding_ok(NameOf[model], envOk)
  THEN [threw |-> FALSE, encoding |-> Len(encodings) + 1,
        cache |-> MapSet(live, key,
                         [key |-> key, encoding |-> Len(encodings) + 1,
                          model |-> model, loadedAt |-> dateNow]),
        heap |-> NewEncoding(encodings, NameOf[model])]
  ELSE [threw |-> TRUE, encoding |-> 0, cache |-> live, heap |-> encodings]

\* loadTiktoken remembering a failure: when get_encoding throws, an entry
\* without encoder is stored, and a call that finds it throws at once
loadTiktoken_negativeCache(model, envOk, dateNow) ==
  LET key == KeyOf[model] IN
  IF MapHas(tiktokenCache, key) /\ MapGet(tiktokenCache, key).encoding = 0
  THEN [threw |-> TRUE, encoding |-> 0, cache |-> tiktokenCache, heap |-> encodings]
  ELSE IF MapHas(tiktokenCache, key)
  THEN [threw |-> FALSE, encoding |-> MapGet(tiktokenCache, key).encoding,
        cache |-> tiktokenCache, heap |-> encodings]
  ELSE IF get_encoding_ok(NameOf[model], envOk)
  THEN [threw |-> FALSE, encoding |-> Len(encodings) + 1,
        cache |-> MapSet(tiktokenCache, key,
                         [key |-> key, encoding |-> Len(encodings) + 1,
                          model |-> model, loadedAt |-> dateNow]),
        heap |-> NewEncoding(encodings, NameOf[model])]
  ELSE [threw |-> TRUE, encoding |-> 0,
        cache |-> MapSet(tiktokenCache, key,
                         [key |-> key, encoding |-> 0, model |-> model,
                          loadedAt |-> dateNow]),
        heap |-> encodings]

\* ----------------------------------------------------------- loadTiktoken
\* The whole body: it holds no await.  dateNow is what Date.now() returns.
\* The result: whether it threw, the encoder it returned, and the cache and
\* the encoder objects it leaves behind.
loadTiktoken(model, envOk, dateNow) ==
  LET key == KeyOf[model] IN
  IF MapHas(tiktokenCache, key)
  THEN [threw |-> FALSE, encoding |-> MapGet(tiktokenCache, key).encoding,
        cache |-> tiktokenCache, heap |-> encodings]
  ELSE IF get_encoding_ok(NameOf[model], envOk)
  THEN [threw |-> FALSE, encoding |-> Len(encodings) + 1,
        cache |-> MapSet(tiktokenCache, key,
                         [key |-> key, encoding |-> Len(encodings) + 1,
                          model |-> model, loadedAt |-> dateNow]),
        heap |-> NewEncoding(encodings, NameOf[model])]
  ELSE [threw |-> TRUE, encoding |-> 0, cache |-> tiktokenCache, heap |-> encodings]

\* loadLlamaTokenizer without its first line: every call builds a singleton
loadLlamaTokenizer_fresh(envOk) ==
  IF get_encoding_ok("cl100k_base", envOk)
  THEN [threw |-> FALSE, encoding |-> Len(encodings) + 1,
        llama |-> [loaded |-> TRUE, encoding |-> Len(encodings) + 1],
        heap |-> NewEncoding(encodings, "cl100k_base")]
  ELSE [threw |-> TRUE, encoding |-> 0, llama |-> llamaTokenizerCache, heap |-> encodings]

\* loadLlamaTokenizer with the singleton around a p50k_base encoder
loadLlamaTokenizer_p50k(envOk) ==
  IF llamaTokenizerCache.loaded
  THEN [threw |-> FALSE, encoding |-> llamaTokenizerCache.encoding,
        llama |-> llamaTokenizerCache, heap |-> encodings]
  ELSE IF get_encoding_ok("p50k_base", envOk)
  THEN [threw |-> FALSE, encoding |-> Len(encodings) + 1,
        llama |-> [loaded |-> TRUE, encoding |-> Len(encodings) + 1],
        heap |-> NewEncoding(encodings, "p50k_base")]
  ELSE [threw |-> TRUE, encoding |-> 0, llama |-> llamaTokenizerCache, heap |-> encodings]

\* ------------------------------------------------------ loadLlamaTokenizer
\* The whole body.  The singleton closes over the cl100k_base encoder.
loadLlamaTokenizer(envOk) ==
  IF llamaTokenizerCache.loaded
  THEN [threw |-> FALSE, encoding |-> llamaTokenizerCache.encoding,
        llama |-> llamaTokenizerCache, heap |-> encodings]
  ELSE IF get_encoding_ok("cl100k_base", envOk)
  THEN [threw |-> FALSE, encoding |-> Len(encodings) + 1,
        llama |-> [loaded |-> TRUE, encoding |-> Len(encodings) + 1],
        heap |-> NewEncoding(encodings, "cl100k_base")]
  ELSE [threw |-> TRUE, encoding |-> 0, llama |-> llamaTokenizerCache, heap |-> encodings]

\* ------------------------------------------------------------------ calls
\* a caller starts a call when its previous one has settled
CanStart(c) == calls[c].pc \in {"idle", "done"}

\* a call builds an encoder only while the run has room for one more
Room(heap) == Len(heap) <= MaxLoads

\* encoding.encode(text) throws on an encoder that was freed, and whenever
\* the package rejects the text
encode_throws(call, encodeOk) == encodings[call.encoding].freed \/ ~encodeOk

\* Math.floor in the place of Math.ceil
fallback_floor(text) ==
  IF Len(text) \div 4 > 1 THEN Len(text) \div 4 ELSE 1

\* the estimate without Math.max(1, ...)
fallback_ceil(text) == (Len(text) + 3) \div 4

\* Math.max(1, Math.ceil(text.length / 4))
fallback(text) ==
  IF (Len(text) + 3) \div 4 > 1 THEN (Len(text) + 3) \div 4 ELSE 1

\* a caller calls loadTiktoken(model)
loadTiktoken_call(c, model, envOk, dateNow) ==
  LET r == loadTiktoken(model, envOk, dateNow) IN
  /\ CanStart(c)
  /\ Room(r.heap)
  /\ tiktokenCache' = r.cache
  /\ encodings' = r.heap
  /\ calls' = [calls EXCEPT ![c] =
       [Idle EXCEPT !.op = "loadTiktoken", !.pc = "done", !.model = model,
                    !.loads = 1, !.loadThrew = r.threw, !.encoding = r.encoding,
                    !.out = IF r.threw THEN "threw" ELSE "returned"]]
  /\ stats' = <<>>
  /\ probe' = <<>>
  /\ UNCHANGED llamaTokenizerCache

\* a caller calls loadLlamaTokenizer()
loadLlamaTokenizer_call(c, envOk) ==
  LET r == loadLlamaTokenizer(envOk) IN
  /\ CanStart(c)
  /\ Room(r.heap)
  /\ llamaTokenizerCache' = r.llama
  /\ encodings' = r.heap
  /\ calls' = [calls EXCEPT ![c] =
       [Idle EXCEPT !.op = "loadLlamaTokenizer", !.pc = "done", !.loads = 1,
                    !.loadThrew = r.threw, !.encoding = r.encoding,
                    !.out = IF r.threw THEN "threw" ELSE "returned"]]
  /\ stats' = <<>>
  /\ probe' = <<>>
  /\ UNCHANGED tiktokenCache

\* ------------------------------------------------ countTokensWithTiktoken
\* up to the await: loadTiktoken has run, the call is suspended
countTokensWithTiktoken_call(c, text, model, envOk, dateNow) ==
  LET r == loadTiktoken(model, envOk, dateNow) IN
  /\ CanStart(c)
  /\ Room(r.heap)
  /\ tiktokenCache' = r.cache
  /\ encodings' = r.heap
  /\ calls' = [calls EXCEPT ![c] =
       [Idle EXCEPT !.op = "countTokensWithTiktoken", !.pc = "encode",
                    !.text = text, !.model = model, !.strategy = "tiktoken",
                    !.inner = model, !.loads = 1, !.loadThrew = r.threw,
                    !.encoding = r.encoding]]
  /\ stats' = <<>>
  /\ probe' = <<>>
  /\ UNCHANGED llamaTokenizerCache

\* after the await: the rejected load or the throwing encode lands in the
\* catch block, which returns the estimate
countTokensWithTiktoken(call, encodeOk) ==
  IF call.loadThrew
  THEN [call EXCEPT !.pc = "done", !.out = "returned", !.tokens = fallback(call.text)]
  ELSE IF encode_throws(call, encodeOk)
  THEN [call EXCEPT !.pc = "done", !.out = "returned", !.encodeThrew = TRUE,
                    !.tokens = fallback(call.text)]
  ELSE [call EXCEPT !.pc = "done", !.out = "returned",
                    !.tokens = Len(NormalizedOf[encodings[call.encoding].name][call.text])]

countTokensWithTiktoken_resume(c, encodeOk) ==
  /\ calls[c].op = "countTokensWithTiktoken"
  /\ calls[c].pc = "encode"
  /\ calls' = [calls EXCEPT ![c] = countTokensWithTiktoken(calls[c], encodeOk)]
  /\ stats' = <<>>
  /\ probe' = <<>>
  /\ UNCHANGED <<tiktokenCache, llamaTokenizerCache, encodings>>

\* --------------------------------------------------- countTokensWithLlama
countTokensWithLlama_call(c, text, envOk) ==
  LET r == loadLlamaTokenizer(envOk) IN
  /\ CanStart(c)
  /\ Room(r.heap)
  /\ llamaTokenizerCache' = r.llama
  /\ encodings' = r.heap
  /\ calls' = [calls EXCEPT ![c] =
       [Idle EXCEPT !.op = "countTokensWithLlama", !.pc = "encode",
                    !.text = text, !.strategy = "llama", !.loads = 1,
                    !.loadThrew = r.threw, !.encoding = r.encoding]]
  /\ stats' = <<>>
  /\ probe' = <<>>
  /\ UNCHANGED tiktokenCache

\* countTokensWithLlama without its catch block
countTokensWithLlama_uncaught(call, encodeOk) ==
  IF call.loadThrew
  THEN [call EXCEPT !.pc = "done", !.out = "threw"]
  ELSE IF encode_throws(call, encodeOk)
  THEN [call EXCEPT !.pc = "done", !.out = "threw", !.encodeThrew = TRUE]
  ELSE [call EXCEPT !.pc = "done", !.out = "returned",
                    !.tokens = Len(NormalizedOf[encodings[call.encoding].name][call.text])]

\* tokenizer.encode(text) is normalizeEncodeResult(encoding.encode(text))
countTokensWithLlama(call, encodeOk) ==
  IF call.loadThrew
  THEN [call EXCEPT !.pc = "done", !.out = "returned", !.tokens = fallback(call.text)]
  ELSE IF encode_throws(call, encodeOk)
  THEN [call EXCEPT !.pc = "done", !.out = "returned", !.encodeThrew = TRUE,
                    !.tokens = fallback(call.text)]
  ELSE [call EXCEPT !.pc = "done", !.out = "returned",
                    !.tokens = Len(NormalizedOf[encodings[call.encoding].name][call.text])]

countTokensWithLlama_resume(c, encodeOk) ==
  /\ calls[c].op = "countTokensWithLlama"
  /\ calls[c].pc = "encode"
  /\ calls' = [calls EXCEPT ![c] = countTokensWithLlama(calls[c], encodeOk)]
  /\ stats' = <<>>
  /\ probe' = <<>>
  /\ UNCHANGED <<tiktokenCache, llamaTokenizerCache, encodings>>

\* -------------------------------------------------------- countTokensAuto
OPENAI_PREFIXES ==
  << <<"g", "p", "t">>, <<"t", "e", "x", "t", "-">>,
     <<"d", "a", "v", "i", "n", "c", "i">>, <<"c", "u", "r", "i", "e">>,
     <<"b", "a", "b", "b", "a", "g", "e">>, <<"a", "d", "a">> >>
LLAMA_PREFIXES ==
  << <<"l", "l", "a", "m", "a">>, <<"m", "i", "s", "t", "r", "a", "l">>,
     <<"m", "i", "x", "t", "r", "a", "l">>,
     <<"c", "o", "d", "e", "l", "l", "a", "m", "a">>,
     <<"v", "i", "c", "u", "n", "a">>, <<"a", "l", "p", "a", "c", "a">> >>

\* the router with the Llama test made first
countTokensAuto_route_llamaFirst(model) ==
  LET lower == toLowerCase(model)
      isOpenAI == some_includes(OPENAI_PREFIXES, lower)
      isLlama == some_includes(LLAMA_PREFIXES, lower)
  IN  IF isLlama THEN [strategy |-> "llama", model |-> <<>>]
      ELSE IF isOpenAI THEN [strategy |-> "tiktoken", model |-> model]
      ELSE [strategy |-> "tiktoken", model |-> gpt_4]

\* the router handing the caller's identifier on in its last branch
countTokensAuto_route_callerModel(model) ==
  LET lower == toLowerCase(model)
      isOpenAI == some_includes(OPENAI_PREFIXES, lower)
      isLlama == some_includes(LLAMA_PREFIXES, lower)
  IN  IF isOpenAI THEN [strategy |-> "tiktoken", model |-> model]
      ELSE IF isLlama THEN [strategy |-> "llama", model |-> <<>>]
      ELSE [strategy |-> "tiktoken", model |-> model]

\* the router without its Llama branch
countTokensAuto_route_noLlama(model) ==
  LET lower == toLowerCase(model)
      isOpenAI == some_includes(OPENAI_PREFIXES, lower)
  IN  IF isOpenAI THEN [strategy |-> "tiktoken", model |-> model]
      ELSE [strategy |-> "tiktoken", model |-> gpt_4]

\* the branch taken: the strategy called and the identifier handed to it
countTokensAuto_route(model) ==
  LET lower == toLowerCase(model)
      isOpenAI == some_includes(OPENAI_PREFIXES, lower)
      isLlama == some_includes(LLAMA_PREFIXES, lower)
  IN  IF isOpenAI THEN [strategy |-> "tiktoken", model |-> model]
      ELSE IF isLlama THEN [strategy |-> "llama", model |-> <<>>]
      ELSE [strategy |-> "tiktoken", model |-> gpt_4]

RouteOf == [m \in AutoModels \cup LlamaModels |-> countTokensAuto_route(m)]

\* up to the first await: the router has called one strategy, which has
\* called its loader
countTokensAuto_call(c, text, model, envOk, dateNow) ==
  LET route == RouteOf[model] IN
  /\ CanStart(c)
  /\ IF route.strategy = "tiktoken"
     THEN LET r == loadTiktoken(route.model, envOk, dateNow) IN
          /\ Room(r.heap)
          /\ tiktokenCache' = r.cache
          /\ encodings' = r.heap
          /\ calls' = [calls EXCEPT ![c] =
               [Idle EXCEPT !.op = "countTokensAuto", !.pc = "encode",
                            !.text = text, !.model = model, !.strategy = "tiktoken",
                            !.inner = route.model, !.loads = 1,
                            !.loadThrew = r.threw, !.encoding = r.encoding]]
          /\ UNCHANGED llamaTokenizerCache
     ELSE LET r == loadLlamaTokenizer(envOk) IN
          /\ Room(r.heap)
          /\ llamaTokenizerCache' = r.llama
          /\ encodings' = r.heap
          /\ calls' = [calls EXCEPT ![c] =
               [Idle EXCEPT !.op = "countTokensAuto", !.pc = "encode",
                            !.text = text, !.model = model, !.strategy = "llama",
                            !.loads = 1, !.loadThrew = r.threw,
                            !.encoding = r.encoding]]
          /\ UNCHANGED tiktokenCache
  /\ stats' = <<>>
  /\ probe' = <<>>

\* the strategy resumes and settles; the router is still suspended, awaiting
\* the promise of the strategy: fulfilled ("pending" for the router's own
\* outcome) or rejected
countTokensAuto_strategy(c, encodeOk) ==
  LET r == IF calls[c].strategy = "tiktoken"
           THEN countTokensWithTiktoken(calls[c], encodeOk)
           ELSE countTokensWithLlama(calls[c], encodeOk)
  IN
  /\ calls[c].op = "countTokensAuto"
  /\ calls[c].pc = "encode"
  /\ calls' = [calls EXCEPT ![c] =
       [r EXCEPT !.pc = "return",
                 !.out = IF r.out = "threw" THEN "rejected" ELSE "pending"]]
  /\ stats' = <<>>
  /\ probe' = <<>>
  /\ UNCHANGED <<tiktokenCache, llamaTokenizerCache, encodings>>

\* the router resumes: nothing catches a rejected strategy; otherwise it
\* returns res.tokens
countTokensAuto_return(c) ==
  /\ calls[c].op = "countTokensAuto"
  /\ calls[c].pc = "return"
  /\ calls' = [calls EXCEPT ![c] =
       [calls[c] EXCEPT !.pc = "done",
                        !.out = IF calls[c].out = "rejected" THEN "threw" ELSE "returned"]]
  /\ stats' = <<>>
  /\ probe' = <<>>
  /\ UNCHANGED <<tiktokenCache, llamaTokenizerCache, encodings>>

\* -------------------------------------------------------- countChatTokens
countChatTokens_call(c, messages, model, envOk, dateNow) ==
  LET r == loadTiktoken(model, envOk, dateNow) IN
  /\ CanStart(c)
  /\ Room(r.heap)
  /\ tiktokenCache' = r.cache
  /\ encodings' = r.heap
  /\ calls' = [calls EXCEPT ![c] =
       [Idle EXCEPT !.op = "countChatTokens", !.pc = "encode",
                    !.messages = messages, !.model = model, !.loads = 1,
                    !.loadThrew = r.threw, !.encoding = r.encoding]]
  /\ stats' = <<>>
  /\ probe' = <<>>
  /\ UNCHANGED llamaTokenizerCache

\* the loop over the messages, from message i on
RECURSIVE countChatTokens_loop(_, _, _, _)
countChatTokens_loop(name, messages, i, total) ==
  IF i > Len(messages) THEN total
  ELSE countChatTokens_loop(name, messages, i + 1,
         total + 4 + Len(NormalizedOf[name][messages[i].role])
                   + Len(NormalizedOf[name][messages[i].content]))

\* countChatTokens without the base overhead
countChatTokens_noBase(call, encodeOk) ==
  IF call.loadThrew
  THEN [call EXCEPT !.pc = "done", !.out = "threw"]
  ELSE IF Len(call.messages) > 0 /\ encode_throws(call, encodeOk)
  THEN [call EXCEPT !.pc = "done", !.out = "threw", !.encodeThrew = TRUE]
  ELSE [call EXCEPT !.pc = "done", !.out = "returned",
                    !.tokens = countChatTokens_loop(encodings[call.encoding].name,
                                                    call.messages, 1, 0)]

\* countChatTokens with the catch block of the strategies around its body
countChatTokens_caught(call, encodeOk) ==
  IF call.loadThrew
  THEN [call EXCEPT !.pc = "done", !.out = "returned", !.tokens = 1]
  ELSE IF Len(call.messages) > 0 /\ encode_throws(call, encodeOk)
  THEN [call EXCEPT !.pc = "done", !.out = "returned", !.encodeThrew = TRUE,
                    !.tokens = 1]
  ELSE [call EXCEPT !.pc = "done", !.out = "returned",
                    !.tokens = countChatTokens_loop(encodings[call.encoding].name,
                                                    call.messages, 1, 3)]

\* after the await: nothing catches the rejected load or a throwing encode
countChatTokens(call, encodeOk) ==
  IF call.loadThrew
  THEN [call EXCEPT !.pc = "done", !.out = "threw"]
  ELSE IF Len(call.messages) > 0 /\ encode_throws(call, encodeOk)
  THEN [call EXCEPT !.pc = "done", !.out = "threw", !.encodeThrew = TRUE]
  ELSE [call EXCEPT !.pc = "done", !.out = "returned",
                    !.tokens = countChatTokens_loop(encodings[call.encoding].name,
                                                    call.messages, 1, 3)]

countChatTokens_resume(c, encodeOk) ==
  /\ calls[c].op = "countChatTokens"
  /\ calls[c].pc = "encode"
  /\ calls' = [calls EXCEPT ![c] = countChatTokens(calls[c], encodeOk)]
  /\ stats' = <<>>
  /\ probe' = <<>>
  /\ UNCHANGED <<tiktokenCache, llamaTokenizerCache, encodings>>

\* ---------------------------------------------------------- getCacheStats
MinOf(S) == CHOOSE x \in S : \A y \in S : x <= y

\* getCacheStats taking the first entry for the oldest one
getCacheStats_firstEntry ==
  LET models == MapKeys(tiktokenCache) IN
  [tiktokenEntries |-> Len(tiktokenCache),
   llamaLoaded |-> llamaTokenizerCache.loaded,
   models |-> models,
   oldestEntry |-> IF Len(models) > 0 THEN <<tiktokenCache[1].loadedAt>> ELSE <<>>]

\* oldestEntry is null (the empty sequence) or a number (a sequence of one)
getCacheStats ==
  LET models == MapKeys(tiktokenCache) IN
  [tiktokenEntries |-> Len(tiktokenCache),
   llamaLoaded |-> llamaTokenizerCache.loaded,
   models |-> models,
   oldestEntry |-> IF Len(models) > 0
                   THEN <<MinOf({tiktokenCache[i].loadedAt : i \in 1..Len(tiktokenCache)})>>
                   ELSE <<>>]

getCacheStats_call ==
  /\ stats' = <<getCacheStats>>
  /\ probe' = <<>>
  /\ UNCHANGED <<tiktokenCache, llamaTokenizerCache, encodings, calls>>

\* clearTokenizerCache without the try block around free(): the first
\* free() that throws ends the loop and the function
clearTokenizerCache_abort(failing) ==
  LET stop == IF failing = {} THEN Len(tiktokenCache) + 1
              ELSE CHOOSE i \in failing : \A j \in failing : i <= j
  IN  [threw |-> failing # {},
       cache |-> SubSeq(tiktokenCache, stop, Len(tiktokenCache)),
       heap |-> [h \in 1..Len(encodings) |->
                  IF \E i \in 1..Len(tiktokenCache) :
                       tiktokenCache[i].encoding = h /\ i < stop
                  THEN [encodings[h] EXCEPT !.freed = TRUE]
                  ELSE encodings[h]],
       llama |-> IF failing = {} THEN Null ELSE llamaTokenizerCache]

\* ------------------------------------------------------ clearTokenizerCache
\* The loop calls free() on the encoder of every entry inside a try block
\* and deletes the entry; then the singleton is dropped.  failing is the
\* set of entries whose free() throws: their encoders are not released.
clearTokenizerCache(failing) ==
  [threw |-> FALSE,
   cache |-> <<>>,
   heap |-> [h \in 1..Len(encodings) |->
              IF \E i \in 1..Len(tiktokenCache) :
                   tiktokenCache[i].encoding = h /\ i \notin failing
              THEN [encodings[h] EXCEPT !.freed = TRUE]
              ELSE encodings[h]],
   llama |-> Null]

clearTokenizerCache_step(failing) ==
  /\ tiktokenCache' = clearTokenizerCache(failing).cache
  /\ encodings' = clearTokenizerCache(failing).heap
  /\ llamaTokenizerCache' = clearTokenizerCache(failing).llama
  /\ stats' = <<>>
  /\ probe' = <<>>
  /\ UNCHANGED calls

clearTokenizerCache_call ==
  \E failing \in SUBSET (1..Len(tiktokenCache)) : clearTokenizerCache_step(failing)

\* ------------------------------------------------------------ normalizers
normalizeEncodeResult_call(raw) ==
  /\ probe' = << [fn |-> "normalizeEncodeResult", arg |-> raw,
                  out |-> normalizeEncodeResult(raw)] >>
  /\ stats' = <<>>
  /\ UNCHANGED <<tiktokenCache, llamaTokenizerCache, encodings, calls>>

normalizeDecodeResult_call(raw) ==
  /\ probe' = << [fn |-> "normalizeDecodeResult", arg |-> raw,
                  out |-> normalizeDecodeResult(raw)] >>
  /\ stats' = <<>>
  /\ UNCHANGED <<tiktokenCache, llamaTokenizerCache, encodings, calls>>

\* ------------------------------------------------- the singleton's decode
\* encoding.decode throws on a freed encoder, for a token that is no rank,
\* and whenever the package fails
decode_throws(h, tokens, decodeOk) ==
  encodings[h].freed \/ ~decodeOk \/ Decode_throws(encodings[h].name, tokens)

\* decode without its try block
llamaTokenizer_decode_noCatch(h, tokens, decodeOk) ==
  LET uint32 == Uint32Array(tokens) IN
  IF decode_throws(h, uint32, decodeOk) THEN [threw |-> TRUE, value |-> <<>>]
  ELSE normalizeDecodeResult(Decode(encodings[h].name, uint32))

\* decode of the tokenizer object around the encoder h
llamaTokenizer_decode(h, tokens, decodeOk) ==
  LET uint32 == Uint32Array(tokens) IN
  IF decode_throws(h, uint32, decodeOk) THEN [threw |-> FALSE, value |-> <<>>]
  ELSE LET r == normalizeDecodeResult(Decode(encodings[h].name, uint32)) IN
       IF r.threw THEN [threw |-> FALSE, value |-> <<>>] ELSE r

\* the caller that got the tokenizer object from loadLlamaTokenizer calls
\* its decode
llamaTokenizer_decode_call(c, tokens, decodeOk) ==
  /\ calls[c].op = "loadLlamaTokenizer"
  /\ calls[c].out = "returned"
  /\ probe' = << [fn |-> "decode", arg |-> tokens, encoding |-> calls[c].encoding,
                  decodeOk |-> decodeOk,
                  out |-> llamaTokenizer_decode(calls[c].encoding, tokens, decodeOk)] >>
  /\ stats' = <<>>
  /\ UNCHANGED <<tiktokenCache, llamaTokenizerCache, encodings, calls>>

\* --------------------------------------------- assertEncodeDecodeRoundtrip
assertEncodeDecodeRoundtrip_call(c, text, model, envOk, dateNow) ==
  LET r == loadTiktoken(model, envOk, dateNow) IN
  /\ CanStart(c)
  /\ Room(r.heap)
  /\ tiktokenCache' = r.cache
  /\ encodings' = r.heap
  /\ calls' = [calls EXCEPT ![c] =
       [Idle EXCEPT !.op = "assertEncodeDecodeRoundtrip", !.pc = "encode",
                    !.text = text, !.model = model, !.loads = 1,
                    !.loadThrew = r.threw, !.encoding = r.encoding]]
  /\ stats' = <<>>
  /\ probe' = <<>>
  /\ UNCHANGED llamaTokenizerCache

\* after the await: encode, normalize, decode, normalize, compare; the
\* catch block turns every failure into false
assertEncodeDecodeRoundtrip(call, encodeOk, decodeOk) ==
  IF call.loadThrew
  THEN [call EXCEPT !.pc = "done", !.out = "returned", !.equal = FALSE]
  ELSE IF encode_throws(call, encodeOk)
  THEN [call EXCEPT !.pc = "done", !.out = "returned", !.encodeThrew = TRUE,
                    !.equal = FALSE]
  ELSE LET name == encodings[call.encoding].name
           arr == normalizeEncodeResult(Encode(name, call.text)).value
           maybeUint32 == Uint32Array(arr)
       IN  IF decode_throws(call.encoding, maybeUint32, decodeOk)
           THEN [call EXCEPT !.pc = "done", !.out = "returned", !.decodeThrew = TRUE,
                             !.equal = FALSE]
           ELSE [call EXCEPT !.pc = "done", !.out = "returned",
                   !.equal = (normalizeDecodeResult(Decode(name, maybeUint32)).value
                                = call.text)]

assertEncodeDecodeRoundtrip_resume(c, encodeOk, decodeOk) ==
  /\ calls[c].op = "assertEncodeDecodeRoundtrip"
  /\ calls[c].pc = "encode"
  /\ calls' = [calls EXCEPT ![c] = assertEncodeDecodeRoundtrip(calls[c], encodeOk, decodeOk)]
  /\ stats' = <<>>
  /\ probe' = <<>>
  /\ UNCHANGED <<tiktokenCache, llamaTokenizerCache, encodings>>

\* ------------------------------------------------------------------- Next
\* The cache layer on its own: loads, diagnostics and clearing, with every
\* value of the clock.
Next ==
  \/ \E c \in DOMAIN calls, model \in DirectModels \cup {Llama_GPT}, envOk \in BOOLEAN,
        dateNow \in 0..MaxClock :
       loadTiktoken_call(c, model, envOk, dateNow)
  \/ \E c \in DOMAIN calls, envOk \in BOOLEAN : loadLlamaTokenizer_call(c, envOk)
  \/ getCacheStats_call
  \/ clearTokenizerCache_call

Spec == Init /\ [][Next]_vars

\* The counting functions, which never read loadedAt: the strategies, the
\* router and the chat counter, with the cache cleared at any moment.
NextCount ==
  \/ \E c \in DOMAIN calls, text \in Texts, model \in DirectModels, envOk \in BOOLEAN :
       countTokensWithTiktoken_call(c, text, model, envOk, 0)
  \/ \E c \in DOMAIN calls, encodeOk \in BOOLEAN : countTokensWithTiktoken_resume(c, encodeOk)
  \/ \E c \in DOMAIN calls, text \in Texts, envOk \in BOOLEAN :
       countTokensWithLlama_call(c, text, envOk)
  \/ \E c \in DOMAIN calls, encodeOk \in BOOLEAN : countTokensWithLlama_resume(c, encodeOk)
  \/ \E c \in DOMAIN calls, text \in Texts, model \in AutoModels, envOk \in BOOLEAN :
       countTokensAuto_call(c, text, model, envOk, 0)
  \/ \E c \in DOMAIN calls, encodeOk \in BOOLEAN : countTokensAuto_strategy(c, encodeOk)
  \/ \E c \in DOMAIN calls : countTokensAuto_return(c)
  \/ \E c \in DOMAIN calls, messages \in MessageLists, model \in ChatModels,
        envOk \in BOOLEAN :
       countChatTokens_call(c, messages, model, envOk, 0)
  \/ \E c \in DOMAIN calls, encodeOk \in BOOLEAN : countChatTokens_resume(c, encodeOk)
  \/ clearTokenizerCache_call

SpecCount == Init /\ [][NextCount]_vars

\* ------------------------------------------------------------- first use
\* Two callers whose calls are in flight together.  Each call runs up to
\* its await in one turn and resumes in a later one, so the turns of the two
\* callers interleave in every order.  No clearTokenizerCache runs.
Callers == {1, 2}

InitConc ==
  /\ tiktokenCache = <<>>
  /\ llamaTokenizerCache = Null
  /\ encodings = <<>>
  /\ calls = [c \in Callers |-> Idle]
  /\ stats = <<>>
  /\ probe = <<>>

ShortLists == {ml \in MessageLists : Len(ml) <= 1}

NextFirstUse ==
  \/ \E c \in Callers, model \in {gpt_4, GPT_4, gpt_4o}, envOk \in BOOLEAN :
       loadTiktoken_call(c, model, envOk, 0)
  \/ \E c \in Callers, model \in {gpt_4, GPT_4}, envOk \in BOOLEAN :
       countTokensWithTiktoken_call(c, SampleText(3), model, envOk, 0)
  \/ \E c \in Callers, encodeOk \in BOOLEAN : countTokensWithTiktoken_resume(c, encodeOk)
  \/ \E c \in Callers, model \in {gpt_4, claude}, envOk \in BOOLEAN :
       countTokensAuto_call(c, SampleText(3), model, envOk, 0)
  \/ \E c \in Callers, encodeOk \in BOOLEAN : countTokensAuto_strategy(c, encodeOk)
  \/ \E c \in Callers : countTokensAuto_return(c)
  \/ \E c \in Callers, messages \in ShortLists, model \in ChatModels, envOk \in BOOLEAN :
       countChatTokens_call(c, messages, model, envOk, 0)
  \/ \E c \in Callers, encodeOk \in BOOLEAN : countChatTokens_resume(c, encodeOk)

SpecFirstUse == InitConc /\ [][NextFirstUse]_vars

\* ---------------------------------------------------------- the singleton
\* Two callers making Llama-family requests, with keyed loads and
\* clearTokenizerCache at any moment.
NextLlama ==
  \/ \E c \in Callers, envOk \in BOOLEAN : loadLlamaTokenizer_call(c, envOk)
  \/ \E c \in Callers, envOk \in BOOLEAN :
       countTokensWithLlama_call(c, SampleText(3), envOk)
  \/ \E c \in Callers, encodeOk \in BOOLEAN : countTokensWithLlama_resume(c, encodeOk)
  \/ \E c \in Callers, model \in LlamaModels, envOk \in BOOLEAN :
       countTokensAuto_call(c, SampleText(3), model, envOk, 0)
  \/ \E c \in Callers, encodeOk \in BOOLEAN : countTokensAuto_strategy(c, encodeOk)
  \/ \E c \in Callers : countTokensAuto_return(c)
  \/ \E c \in Callers, envOk \in BOOLEAN : loadTiktoken_call(c, gpt_4, envOk, 0)
  \/ clearTokenizerCache_call

SpecLlama == InitConc /\ [][NextLlama]_vars

\* --------------------------------------------------------------- progress
\* Two callers of countTokensAuto, with clearTokenizerCache at any moment.  A suspended call resumes once the promise it awaits has
\* settled: the continuation is a job of the microtask queue, which the
\* event loop runs, so each resumption is weakly fair.
NextLive ==
  \/ \E c \in Callers, model \in AutoModels, envOk \in BOOLEAN :
       countTokensAuto_call(c, SampleText(MaxTextLen), model, envOk, 0)
  \/ \E c \in Callers, encodeOk \in BOOLEAN : countTokensAuto_strategy(c, encodeOk)
  \/ \E c \in Callers : countTokensAuto_return(c)
  \/ clearTokenizerCache_call

SpecLive ==
  /\ InitConc
  /\ [][NextLive]_vars
  /\ \A c \in Callers :
       /\ WF_vars(\E encodeOk \in BOOLEAN : countTokensAuto_strategy(c, encodeOk))
       /\ WF_vars(countTokensAuto_return(c))

\* ------------------------------------------------------------------ codec
\* The normalizers on their own, applied to raw values of every shape.
NextNormalize ==
  \/ \E raw \in RawEncodeResults : normalizeEncodeResult_call(raw)
  \/ \E raw \in RawDecodeResults : normalizeDecodeResult_call(raw)

SpecNormalize == Init /\ [][NextNormalize]_vars

\* Decoding: the singleton's decode and the round-trip helper, with the
\* cache cleared at any moment.
NextCodec ==
  \/ \E c \in DOMAIN calls, envOk \in BOOLEAN : loadLlamaTokenizer_call(c, envOk)
  \/ \E c \in DOMAIN calls, tokens \in TokenLists, decodeOk \in BOOLEAN :
       llamaTokenizer_decode_call(c, tokens, decodeOk)
  \/ \E c \in DOMAIN calls, text \in Texts, model \in DirectModels, envOk \in BOOLEAN :
       assertEncodeDecodeRoundtrip_call(c, text, model, envOk, 0)
  \/ \E c \in DOMAIN calls, encodeOk \in BOOLEAN, decodeOk \in BOOLEAN :
       assertEncodeDecodeRoundtrip_resume(c, encodeOk, decodeOk)
  \/ clearTokenizerCache_call

SpecCodec == Init /\ [][NextCodec]_vars

\* ---------------------------------------------------------------- retries
\* Two callers of the four counting functions, for identifiers of one key
\* and for the singleton, with get_encoding failing or not in each call.
\* No clearTokenizerCache runs.
NextRetry ==
  \/ \E c \in Callers, model \in {gpt_4, GPT_4}, envOk \in BOOLEAN :
       countTokensWithTiktoken_call(c, SampleText(3), model, envOk, 0)
  \/ \E c \in Callers, encodeOk \in BOOLEAN : countTokensWithTiktoken_resume(c, encodeOk)
  \/ \E c \in Callers, envOk \in BOOLEAN :
       countTokensWithLlama_call(c, SampleText(3), envOk)
  \/ \E c \in Callers, encodeOk \in BOOLEAN : countTokensWithLlama_resume(c, encodeOk)
  \/ \E c \in Callers, model \in {llama_2_7b, claude}, envOk \in BOOLEAN :
       countTokensAuto_call(c, SampleText(3), model, envOk, 0)
  \/ \E c \in Callers, encodeOk \in BOOLEAN : countTokensAuto_strategy(c, encodeOk)
  \/ \E c \in Callers : countTokensAuto_return(c)
  \/ \E c \in Callers, messages \in ShortLists, envOk \in BOOLEAN :
       countChatTokens_call(c, messages, gpt_4, envOk, 0)
  \/ \E c \in Callers, encodeOk \in BOOLEAN : countChatTokens_resume(c, encodeOk)

SpecRetry == InitConc /\ [][NextRetry]_vars

\* ------------------------------------------------------ the two strategies
\* The first caller counts with the exact strategy, the second with the
\* approximate one, each with every text, with clearTokenizerCache at any
\* moment.  "claude" is no key of ENCODING_MAP and gets the default scheme;
\* "gpt-4o" gets another scheme.
NextBoth ==
  \/ \E text \in Texts, model \in {gpt_4, claude, gpt_4o}, envOk \in BOOLEAN :
       countTokensWithTiktoken_call(1, text, model, envOk, 0)
  \/ \E encodeOk \in BOOLEAN : countTokensWithTiktoken_resume(1, encodeOk)
  \/ \E text \in Texts, envOk \in BOOLEAN : countTokensWithLlama_call(2, text, envOk)
  \/ \E encodeOk \in BOOLEAN : countTokensWithLlama_resume(2, encodeOk)
  \/ clearTokenizerCache_call

SpecBoth == InitConc /\ [][NextBoth]_vars

\* ================================================================= claims
Done(c, op) == calls[c].op = op /\ calls[c].pc = "done"

\* the least n >= 1 with 4 * n >= the length of the text
Estimate(text) ==
  CHOOSE n \in 1..(Len(text) + 1) :
    /\ 4 * n >= Len(text)
    /\ (n = 1 \/ 4 * (n - 1) < Len(text))

\* the number of tokens the encoder object h yields for the text
EncodedLength(h, text) == Len(EncodeTokens(Vocab(encodings[h].name), text))

\* C1: countTokensWithTiktoken never throws; when the load or the encode
\* failed its count is max(1, ceil(length / 4)), and otherwise it is the
\* length of the encoded sequence.
C1_ExactCountOrEstimate ==
  \A c \in DOMAIN calls :
    Done(c, "countTokensWithTiktoken") =>
      /\ calls[c].out = "returned"
      /\ (calls[c].loadThrew \/ calls[c].encodeThrew)
           => calls[c].tokens = Estimate(calls[c].text)
      /\ ~(calls[c].loadThrew \/ calls[c].encodeThrew)
           => calls[c].tokens = EncodedLength(calls[c].encoding, calls[c].text)

\* a call on a text of more than four characters whose encoder was freed
\* while the call was suspended, and one whose load failed
C1_Witness ==
  \E c \in DOMAIN calls :
    /\ Done(c, "countTokensWithTiktoken")
    /\ Len(calls[c].text) > 4
    /\ calls[c].encodeThrew
    /\ encodings[calls[c].encoding].freed
    /\ calls[c].tokens = 2

\* the entries of the cache under the lower-cased form of the identifier
EntriesFor(cache, model) ==
  {i \in 1..Len(cache) : cache[i].key = KeyOf[model]}

\* a loadTiktoken call that follows, with no clearTokenizerCache in between
\* (the encoder the first call returned is still the one of an entry), a
\* call that returned an encoder for a case variant of the same identifier
C2_SecondCall(c, model, envOk, dateNow) ==
  /\ Done(c, "loadTiktoken")
  /\ calls[c].out = "returned"
  /\ \E i \in 1..Len(tiktokenCache) : tiktokenCache[i].encoding = calls[c].encoding
  /\ KeyOf[model] = KeyOf[calls[c].model]
  /\ loadTiktoken_call(c, model, envOk, dateNow)

C3_FailedLoadLeavesCache ==
  [][\A c \in DOMAIN calls, model \in Models, envOk \in BOOLEAN, dateNow \in 0..MaxClock :
       ( /\ ~MapHas(tiktokenCache, KeyOf[model])
         /\ ~get_encoding_ok(NameOf[model], envOk)
         /\ loadTiktoken_call(c, model, envOk, dateNow) )
       => /\ calls'[c].out = "threw"
          /\ tiktokenCache' = tiktokenCache
          /\ llamaTokenizerCache' = llamaTokenizerCache]_vars

\* a load was rejected while the cache held an entry and the singleton
C3_Witness ==
  \E c \in DOMAIN calls :
    /\ Done(c, "loadTiktoken")
    /\ calls[c].out = "threw"
    /\ Len(tiktokenCache) > 0
    /\ ~MapHas(tiktokenCache, KeyOf[calls[c].model])
    /\ llamaTokenizerCache.loaded

ZeroStats ==
  [tiktokenEntries |-> 0, llamaLoaded |-> FALSE, models |-> <<>>, oldestEntry |-> <<>>]

\* C4: clearTokenizerCache can always run; getCacheStats called right after
\* it reports no entry, no identifier, no oldest timestamp and no singleton;
\* and a loadTiktoken call right after it, for any identifier, with
\* get_encoding able to build every scheme, returns a new encoder and
\* inserts the one entry for it.
C4_ClearThenStatsThenReload ==
  /\ [](ENABLED clearTokenizerCache_call)
  /\ [][clearTokenizerCache_call =>
          /\ getCacheStats' = ZeroStats
          /\ \A model \in Models, dateNow \in 0..MaxClock :
               LET r == loadTiktoken(model, TRUE, dateNow)' IN
               /\ ~r.threw
               /\ r.encoding = Len(encodings') + 1
               /\ Len(r.heap) = Len(encodings') + 1
               /\ ~r.heap[r.encoding].freed
               /\ r.cache = << [key |-> KeyOf[model], encoding |-> r.encoding,
                                model |-> model, loadedAt |-> dateNow] >>]_vars

\* the identifier, lower-cased, contains one of the substrings
ContainsAny(model, substrings) ==
  \E i \in 1..Len(substrings), k \in 0..Len(model) :
    /\ k + Len(substrings[i]) <= Len(model)
    /\ \A j \in 1..Len(substrings[i]) : LowerChar(model[k + j]) = substrings[i][j]

FamilyOf ==
  [m \in AutoModels |->
    [openai |-> ContainsAny(m, OPENAI_PREFIXES), llama |-> ContainsAny(m, LLAMA_PREFIXES)]]

\* C5: countTokensAuto calls one strategy: the exact one with the caller's
\* identifier when the lower-cased identifier contains an OpenAI substring,
\* also when it contains a Llama substring as well; else the approximate one
\* when it contains a Llama substring; else the exact one.
C5_AutoDispatch ==
  \A c \in DOMAIN calls :
    calls[c].op = "countTokensAuto" =>
      /\ calls[c].loads = 1
      /\ FamilyOf[calls[c].model].openai =>
           calls[c].strategy = "tiktoken" /\ calls[c].inner = calls[c].model
      /\ (~FamilyOf[calls[c].model].openai /\ FamilyOf[calls[c].model].llama) =>
           calls[c].strategy = "llama"
      /\ (~FamilyOf[calls[c].model].openai /\ ~FamilyOf[calls[c].model].llama) =>
           calls[c].strategy = "tiktoken"

\* a settled call for Llama-GPT, which contains a substring of each family:
\* it counted with the keyed encoder of the identifier itself
C5_Witness ==
  \E c \in DOMAIN calls :
    /\ Done(c, "countTokensAuto")
    /\ calls[c].model = Llama_GPT
    /\ calls[c].strategy = "tiktoken"
    /\ ~calls[c].loadThrew
    /\ MapHas(tiktokenCache, KeyOf[Llama_GPT])
    /\ MapGet(tiktokenCache, KeyOf[Llama_GPT]).model = Llama_GPT
    /\ MapGet(tiktokenCache, KeyOf[Llama_GPT]).encoding = calls[c].encoding

\* a step of the call c itself
OwnStep(c) == calls'[c] # calls[c]

\* the entries of the cache after the step that were not there before it
NewEntries == {i \in 1..Len(tiktokenCache') : i > Len(tiktokenCache)}
OldEntriesKept ==
  /\ Len(tiktokenCache') >= Len(tiktokenCache)
  /\ SubSeq(tiktokenCache', 1, Len(tiktokenCache)) = tiktokenCache

NeitherFamily(m) == ~FamilyOf[m].openai /\ ~FamilyOf[m].llama

\* C6: countTokensAuto with an identifier of neither family hands "gpt-4" to
\* the exact strategy: no step of the call creates a keyed entry other than
\* the one for "gpt-4", and none exists under the identifier.
C6_DefaultIdentifier ==
  /\ [](\A m \in AutoModels : NeitherFamily(m) => ~MapHas(tiktokenCache, KeyOf[m]))
  /\ [][\A c \in DOMAIN calls :
          ( /\ OwnStep(c)
            /\ calls'[c].op = "countTokensAuto"
            /\ NeitherFamily(calls'[c].model) )
          => /\ calls'[c].strategy = "tiktoken"
             /\ calls'[c].inner = gpt_4
             /\ OldEntriesKept
             /\ \A i \in NewEntries : tiktokenCache'[i].key = gpt_4
             /\ llamaTokenizerCache' = llamaTokenizerCache]_vars

\* a settled call for "claude" that built the encoder of the "gpt-4" entry
C6_Witness ==
  \E c \in DOMAIN calls :
    /\ Done(c, "countTokensAuto")
    /\ calls[c].model = claude
    /\ ~calls[c].loadThrew
    /\ Len(tiktokenCache) = 1
    /\ tiktokenCache[1].key = gpt_4
    /\ tiktokenCache[1].model = gpt_4
    /\ tiktokenCache[1].encoding = calls[c].encoding

\* C7: countTokensAuto for "gpt-4" uses the exact strategy: its steps read
\* or create only the keyed entry "gpt-4" and leave the singleton as it is;
\* for "llama-2-7b" it uses the approximate strategy: its steps read or
\* create only the singleton and leave the keyed cache as it is.  (A call
\* is at "encode" right after the step that started it.)
C7_RoutesApart ==
  [][\A c \in DOMAIN calls :
       (OwnStep(c) /\ calls'[c].op = "countTokensAuto") =>
         /\ calls'[c].model = gpt_4 =>
              /\ calls'[c].strategy = "tiktoken"
              /\ OldEntriesKept
              /\ \A i \in NewEntries : tiktokenCache'[i].key = gpt_4
              /\ (~calls'[c].loadThrew /\ calls'[c].pc = "encode") =>
                   /\ MapHas(tiktokenCache', gpt_4)
                   /\ MapGet(tiktokenCache', gpt_4).encoding = calls'[c].encoding
              /\ llamaTokenizerCache' = llamaTokenizerCache
         /\ calls'[c].model = llama_2_7b =>
              /\ calls'[c].strategy = "llama"
              /\ tiktokenCache' = tiktokenCache
              /\ \/ llamaTokenizerCache' = llamaTokenizerCache
                 \/ ~llamaTokenizerCache.loaded /\ llamaTokenizerCache'.loaded
              /\ (~calls'[c].loadThrew /\ calls'[c].pc = "encode") =>
                   llamaTokenizerCache' = [loaded |-> TRUE, encoding |-> calls'[c].encoding]]_vars

\* a settled call for "llama-2-7b" that created the singleton while the
\* keyed cache held the entry "gpt-4"
C7_Witness ==
  \E c \in DOMAIN calls :
    /\ Done(c, "countTokensAuto")
    /\ calls[c].model = llama_2_7b
    /\ calls[c].strategy = "llama"
    /\ llamaTokenizerCache = [loaded |-> TRUE, encoding |-> calls[c].encoding]
    /\ MapHas(tiktokenCache, gpt_4)
    /\ MapGet(tiktokenCache, gpt_4).encoding # calls[c].encoding

\* the sum of f[i] over the indices 1..n
RECURSIVE SumTo(_, _)
SumTo(f, n) == IF n = 0 THEN 0 ELSE f[n] + SumTo(f, n - 1)

\* 3 + the sum over the messages of 4 + tokens(role) + tokens(content)
ChatTotal(h, messages) ==
  3 + SumTo([i \in 1..Len(messages) |->
              4 + EncodedLength(h, messages[i].role)
                + EncodedLength(h, messages[i].content)],
            Len(messages))

\* C8: when the load and the encodes succeed, countChatTokens returns 3 plus,
\* for each message, 4 plus the encoded lengths of its role and content, for
\* the empty list as well; the encoder is loaded once, before the loop: the
\* step that runs the loop builds no encoder and leaves the cache alone.
C8_ChatTotal ==
  /\ [](\A c \in DOMAIN calls :
          Done(c, "countChatTokens") =>
            /\ calls[c].loads = 1
            /\ (~calls[c].loadThrew /\ ~calls[c].encodeThrew) =>
                 /\ calls[c].out = "returned"
                 /\ calls[c].tokens = ChatTotal(calls[c].encoding, calls[c].messages))
  /\ [][\A c \in DOMAIN calls, encodeOk \in BOOLEAN :
          countChatTokens_resume(c, encodeOk) =>
            encodings' = encodings /\ tiktokenCache' = tiktokenCache]_vars

\* a settled call on two messages with a non-empty content
C8_Witness ==
  \E c \in DOMAIN calls :
    /\ Done(c, "countChatTokens")
    /\ calls[c].out = "returned"
    /\ Len(calls[c].messages) = 2
    /\ \A i \in 1..2 : calls[c].messages[i].content # <<>>
    /\ calls[c].tokens = 17

\* C9: when the load fails countChatTokens rejects and yields no count,
\* while countTokensWithTiktoken and countTokensWithLlama return the estimate.
C9_ChatPropagatesLoadFailure ==
  \A c \in DOMAIN calls :
    (calls[c].pc = "done" /\ calls[c].loadThrew) =>
      /\ calls[c].op = "countChatTokens" =>
           calls[c].out = "threw" /\ calls[c].tokens = NoTokens
      /\ calls[c].op \in {"countTokensWithTiktoken", "countTokensWithLlama"} =>
           calls[c].out = "returned" /\ calls[c].tokens = Estimate(calls[c].text)

\* a chat call on a non-empty list whose load failed has settled
C9_Witness ==
  \E c \in DOMAIN calls :
    /\ Done(c, "countChatTokens")
    /\ calls[c].loadThrew
    /\ Len(calls[c].messages) > 0
    /\ calls[c].out = "threw"

\* C10: the encoding name loadTiktoken resolves for an identifier is the
\* scheme ENCODING_MAP declares for the lower-cased identifier when that is
\* one of its keys, and cl100k_base for every other identifier; it is always
\* one of the four schemes.
C10_ResolverTotal ==
  \A c \in DOMAIN calls :
    calls[c].op = "loadTiktoken" =>
      LET key == toLowerCase(calls[c].model)
          name == EncodingName(key, calls[c].model)
      IN  /\ name \in Schemes
          /\ IsOwnKey(key) => name = OwnValue(key)
          /\ ~IsOwnKey(key) => name = "cl100k_base"

\* C16: clearTokenizerCache does not throw when free() throws for any set
\* of entries: it still calls free() on every other entry, releasing their
\* encoders, and ends with the keyed cache empty and the singleton dropped.
C16_BestEffortRelease ==
  [][\A failing \in SUBSET (1..Len(tiktokenCache)) :
       clearTokenizerCache_step(failing) =>
         /\ ~clearTokenizerCache(failing).threw
         /\ tiktokenCache' = <<>>
         /\ llamaTokenizerCache' = Null
         /\ Len(encodings') = Len(encodings)
         /\ \A i \in 1..Len(tiktokenCache) :
              i \notin failing => encodings'[tiktokenCache[i].encoding].freed]_vars

\* the cache was cleared while free() threw for the o200k_base encoder of
\* one entry and released the encoder of another
C16_Witness ==
  /\ tiktokenCache = <<>>
  /\ ~llamaTokenizerCache.loaded
  /\ \E h, g \in 1..Len(encodings) :
       /\ encodings[h].name = "o200k_base"
       /\ ~encodings[h].freed
       /\ encodings[g].name = "cl100k_base"
       /\ encodings[g].freed

\* the key under which a call asked loadTiktoken for its encoder
HandleKey(call) ==
  IF call.op = "countTokensAuto" THEN KeyOf[call.inner] ELSE KeyOf[call.model]

\* the call went through loadTiktoken and got an encoder from it
HoldsHandle(call) ==
  /\ call.op \in {"loadTiktoken", "countTokensWithTiktoken", "countTokensAuto",
                   "countChatTokens"}
  /\ call.strategy # "llama"
  /\ call.loads = 1
  /\ ~call.loadThrew

\* C11: with the calls of two callers interleaved in every order and no
\* clearTokenizerCache, the cache holds at most one entry per key, every
\* encoder built is the encoder of one entry (one get_encoding per key), and
\* every call that got an encoder for a key got the encoder of its entry.
C11_OneEntryPerKey ==
  /\ \A i, j \in 1..Len(tiktokenCache) :
       tiktokenCache[i].key = tiktokenCache[j].key => i = j
  /\ Len(encodings) = Len(tiktokenCache)
  /\ \A h \in 1..Len(encodings) :
       Cardinality({i \in 1..Len(tiktokenCache) : tiktokenCache[i].encoding = h}) = 1
  /\ \A c \in Callers :
       HoldsHandle(calls[c]) =>
         /\ MapHas(tiktokenCache, HandleKey(calls[c]))
         /\ MapGet(tiktokenCache, HandleKey(calls[c])).encoding = calls[c].encoding
  /\ \A c, d \in Callers :
       ( /\ HoldsHandle(calls[c])
         /\ HoldsHandle(calls[d])
         /\ HandleKey(calls[c]) = HandleKey(calls[d]) )
       => calls[c].encoding = calls[d].encoding

\* countTokensAuto for "claude" and countChatTokens for "gpt-4" are both
\* suspended at their await, holding the one encoder built for "gpt-4"
C11_Witness ==
  /\ calls[1].op = "countTokensAuto"
  /\ calls[1].model = claude
  /\ calls[1].pc = "encode"
  /\ calls[2].op = "countChatTokens"
  /\ calls[2].model = gpt_4
  /\ calls[2].pc = "encode"
  /\ HoldsHandle(calls[1])
  /\ HoldsHandle(calls[2])
  /\ calls[1].encoding = calls[2].encoding
  /\ Len(encodings) = 1

\* the call is a Llama-family request: it went through loadLlamaTokenizer
IsLlamaRequest(call) ==
  \/ call.op \in {"loadLlamaTokenizer", "countTokensWithLlama"}
  \/ call.op = "countTokensAuto" /\ call.strategy = "llama"

\* the step is the first turn of a call of c
Starts(c) == CanStart(c) /\ OwnStep(c)

C13_AutoCompletes ==
  /\ [](\A c \in Callers :
          calls[c].op = "countTokensAuto" => calls[c].out \notin {"threw", "rejected"})
  /\ \A c \in Callers :
       (calls[c].op = "countTokensAuto" /\ calls[c].pc # "done")
         ~> ( /\ calls[c].op = "countTokensAuto"
              /\ calls[c].pc = "done"
              /\ calls[c].out = "returned"
              /\ calls[c].tokens \in Nat )

\* a call for "gpt-4" settled with the estimate after clearTokenizerCache
\* had freed its encoder under it, while the other caller's call is suspended
C13_Witness ==
  /\ Done(1, "countTokensAuto")
  /\ calls[1].model = gpt_4
  /\ ~calls[1].loadThrew
  /\ encodings[calls[1].encoding].freed
  /\ calls[1].encodeThrew
  /\ calls[1].out = "returned"
  /\ calls[1].tokens = 2
  /\ calls[2].op = "countTokensAuto"
  /\ calls[2].pc = "encode"

\* C14: countTokensWithTiktoken never throws and its count is a natural
\* number; for the empty text the count is 0 when the load and the encode
\* succeed and 1 when either fails.
C14_EmptyText ==
  \A c \in DOMAIN calls :
    Done(c, "countTokensWithTiktoken") =>
      /\ calls[c].out = "returned"
      /\ calls[c].tokens \in Nat
      /\ calls[c].text = <<>> =>
           calls[c].tokens = IF calls[c].loadThrew \/ calls[c].encodeThrew THEN 1 ELSE 0

\* the empty text was counted by a live encoder: 0 tokens
C14_Witness ==
  \E c \in DOMAIN calls :
    /\ Done(c, "countTokensWithTiktoken")
    /\ calls[c].text = <<>>
    /\ ~calls[c].loadThrew
    /\ ~calls[c].encodeThrew
    /\ ~encodings[calls[c].encoding].freed
    /\ calls[c].tokens = 0

\* the empty text after a failed load: the estimate, 1
C14_WitnessFallback ==
  \E c \in DOMAIN calls :
    /\ Done(c, "countTokensWithTiktoken")
    /\ calls[c].text = <<>>
    /\ calls[c].loadThrew
    /\ calls[c].tokens = 1

\* C15: in every state getCacheStats reports as many entries as it lists
\* identifiers and as the cache holds, the keys in insertion order,
\* llamaLoaded exactly when the singleton is there, and for oldestEntry
\* null exactly when the cache is empty and else the least loadedAt of the
\* entries; a getCacheStats call returns this and changes nothing.
C15_StatsReadOnly ==
  /\ [](LET s == getCacheStats IN
         /\ s.tiktokenEntries = Len(tiktokenCache)
         /\ Len(s.models) = s.tiktokenEntries
         /\ \A i \in 1..Len(tiktokenCache) : s.models[i] = tiktokenCache[i].key
         /\ s.llamaLoaded <=> llamaTokenizerCache.loaded
         /\ (s.oldestEntry = <<>>) <=> (tiktokenCache = <<>>)
         /\ tiktokenCache # <<>> =>
              /\ Len(s.oldestEntry) = 1
              /\ \E i \in 1..Len(tiktokenCache) : tiktokenCache[i].loadedAt = s.oldestEntry[1]
              /\ \A i \in 1..Len(tiktokenCache) : s.oldestEntry[1] <= tiktokenCache[i].loadedAt)
  /\ [][stats' # <<>> =>
          /\ stats' = <<getCacheStats>>
          /\ UNCHANGED <<tiktokenCache, llamaTokenizerCache, encodings, calls>>]_vars

\* getCacheStats reported two entries, no singleton and the oldest
\* timestamp 0, which is not the timestamp of the entry inserted first
C15_Witness ==
  /\ stats # <<>>
  /\ stats[1].tiktokenEntries = 2
  /\ ~stats[1].llamaLoaded
  /\ stats[1].oldestEntry = <<0>>
  /\ tiktokenCache[1].loadedAt = 1

\* C20: a loadTiktoken call that finds an entry under the lower-cased
\* identifier returns the encoder of the entry and changes nothing: the
\* entry keeps its encoder, its model and its loadedAt, no encoder is built,
\* and the other entries and the singleton stay as they are.
C20_HitChangesNothing ==
  [][\A c \in DOMAIN calls, model \in Models, envOk \in BOOLEAN, dateNow \in 0..MaxClock :
       ( /\ MapHas(tiktokenCache, KeyOf[model])
         /\ loadTiktoken_call(c, model, envOk, dateNow) )
       => /\ calls'[c].out = "returned"
          /\ calls'[c].encoding = MapGet(tiktokenCache, KeyOf[model]).encoding
          /\ tiktokenCache' = tiktokenCache
          /\ encodings' = encodings
          /\ llamaTokenizerCache' = llamaTokenizerCache]_vars

\* "GPT-4" was asked for at a time when the cache held two entries, the
\* first one stored for "gpt-4" at time 0: the call got its encoder, and the
\* entry still names "gpt-4" and time 0
C20_Witness ==
  \E c \in DOMAIN calls :
    /\ Done(c, "loadTiktoken")
    /\ calls[c].model = GPT_4
    /\ calls[c].out = "returned"
    /\ Len(tiktokenCache) = 2
    /\ Len(encodings) = 2
    /\ tiktokenCache[1].model = gpt_4
    /\ tiktokenCache[1].loadedAt = 0
    /\ tiktokenCache[1].encoding = calls[c].encoding
    /\ tiktokenCache[2].loadedAt = 1

\* the number an element of a raw value stands for
ElementOf(raw, i) ==
  IF raw.shape = "Uint32Array" THEN raw.data[i].hi * 65536 + raw.data[i].lo
  ELSE raw.data[i]

\* C17: the normalizers do not throw, whatever the shape of the raw value.
\* normalizeEncodeResult returns an array as it is, the elements of a
\* Uint8Array, Uint16Array or Uint32Array in order, and the empty array
\* when Array.from throws; normalizeDecodeResult returns a string as it is
\* and the empty string when String throws.
C17_NormalizersTotal ==
  probe # <<>> =>
    LET p == probe[1] IN
    /\ p.fn = "normalizeEncodeResult" =>
         /\ ~p.out.threw
         /\ p.arg.shape = "Array" => p.out.value = p.arg.data
         /\ p.arg.shape \in {"Uint8Array", "Uint16Array", "Uint32Array"} =>
              /\ Len(p.out.value) = Len(p.arg.data)
              /\ \A i \in 1..Len(p.arg.data) : p.out.value[i] = ElementOf(p.arg, i)
         /\ p.arg.shape \in {"null", "undefined"} => p.out.value = <<>>
    /\ p.fn = "normalizeDecodeResult" =>
         /\ ~p.out.threw
         /\ p.arg.shape = "string" => p.out.value = p.arg.data
         /\ p.arg.shape = "unprintable" => p.out.value = <<>>

\* a Uint32Array of two elements came out as the array of the two numbers
C17_Witness ==
  /\ probe # <<>>
  /\ probe[1].fn = "normalizeEncodeResult"
  /\ probe[1].arg.shape = "Uint32Array"
  /\ Len(probe[1].arg.data) = 2
  /\ probe[1].out.value = <<65542, 7>>

\* undefined came out of normalizeEncodeResult as the empty array
C17_WitnessCoercion ==
  /\ probe # <<>>
  /\ probe[1].fn = "normalizeEncodeResult"
  /\ probe[1].arg.shape = "undefined"
  /\ probe[1].out = [threw |-> FALSE, value |-> <<>>]

\* a token of the list is no rank of cl100k_base
NoRank(tokens) ==
  \E i \in 1..Len(tokens) : tokens[i] < 0 \/ tokens[i] >= Len(Vocab("cl100k_base"))

\* C18: the singleton's decode does not throw and returns the empty string
\* when the encoder's decode fails; assertEncodeDecodeRoundtrip does not
\* throw and returns false when the load, the encode or the decode fails.
C18_DecodeNeverThrows ==
  /\ (probe # <<>> /\ probe[1].fn = "decode") =>
       /\ ~probe[1].out.threw
       /\ (~probe[1].decodeOk \/ NoRank(probe[1].arg)) => probe[1].out.value = <<>>
  /\ \A c \in DOMAIN calls :
       Done(c, "assertEncodeDecodeRoundtrip") =>
         /\ calls[c].out = "returned"
         /\ (calls[c].loadThrew \/ calls[c].encodeThrew \/ calls[c].decodeThrew)
              => ~calls[c].equal

\* decode was handed a negative token, which is no rank once taken modulo
\* 2^32: the encoder's decode threw and the empty string came back
C18_Witness ==
  /\ probe # <<>>
  /\ probe[1].fn = "decode"
  /\ probe[1].decodeOk
  /\ probe[1].arg = <<0, -1>>
  /\ probe[1].out = [threw |-> FALSE, value |-> <<>>]

\* the round trip returned false because the decode failed
C18_WitnessRoundtrip ==
  \E c \in DOMAIN calls :
    /\ Done(c, "assertEncodeDecodeRoundtrip")
    /\ calls[c].decodeThrew
    /\ calls[c].out = "returned"
    /\ ~calls[c].equal

\* C19: for a text of characters of the vocabulary, the text decoded from
\* the Uint32Array of its normalized encoding is the text: when the load,
\* the encode and the decode succeed, assertEncodeDecodeRoundtrip returns
\* true.
C19_Roundtrip ==
  /\ \A name \in Schemes, text \in Texts :
       TextDecoder_decode(
         DecodeBytes(Vocab(name),
                     Uint32Array(normalizeEncodeResult(Encode(name, text)).value).data))
         = text
  /\ \A c \in DOMAIN calls :
       ( /\ Done(c, "assertEncodeDecodeRoundtrip")
         /\ ~calls[c].loadThrew
         /\ ~calls[c].encodeThrew
         /\ ~calls[c].decodeThrew )
       => calls[c].equal

\* the longest text made the round trip through the o200k_base encoder
C19_Witness ==
  \E c \in DOMAIN calls :
    /\ Done(c, "assertEncodeDecodeRoundtrip")
    /\ calls[c].model = gpt_4o
    /\ calls[c].text = SampleText(MaxTextLen)
    /\ ~calls[c].loadThrew
    /\ encodings[calls[c].encoding].name = "o200k_base"
    /\ calls[c].equal

\* C21: the cache is keyed by the lower-cased identifier and not by the
\* scheme.  A loadTiktoken call that finds no entry under its key and whose
\* get_encoding succeeds adds one entry under the key, around an encoder
\* get_encoding has just built, whether or not an entry of the same scheme
\* exists; no two entries share a key or an encoder.
C21_KeyedByIdentifier ==
  /\ [](\A i, j \in 1..Len(tiktokenCache) :
          i # j => /\ tiktokenCache[i].key # tiktokenCache[j].key
                   /\ tiktokenCache[i].encoding # tiktokenCache[j].encoding)
  /\ [][\A c \in DOMAIN calls, model \in Models, envOk \in BOOLEAN, dateNow \in 0..MaxClock :
          ( /\ ~MapHas(tiktokenCache, KeyOf[model])
            /\ get_encoding_ok(NameOf[model], envOk)
            /\ calls'[c].model = model
            /\ loadTiktoken_call(c, model, envOk, dateNow) )
          => /\ OldEntriesKept
             /\ Len(tiktokenCache') = Len(tiktokenCache) + 1
             /\ Len(encodings') = Len(encodings) + 1
             /\ tiktokenCache'[Len(tiktokenCache')].key = KeyOf[model]
             /\ tiktokenCache'[Len(tiktokenCache')].encoding = Len(encodings')
             /\ encodings'[Len(encodings')] = [name |-> NameOf[model], freed |-> FALSE]
             /\ calls'[c].encoding = Len(encodings')]_vars

\* "gpt-4" and "Llama-GPT" both resolve to cl100k_base: the cache holds an
\* entry for each, around two encoders of that scheme
C21_Witness ==
  /\ Len(tiktokenCache) = 2
  /\ tiktokenCache[1].key = gpt_4
  /\ tiktokenCache[2].key = KeyOf[Llama_GPT]
  /\ tiktokenCache[1].encoding # tiktokenCache[2].encoding
  /\ encodings[tiktokenCache[1].encoding] = [name |-> "cl100k_base", freed |-> FALSE]
  /\ encodings[tiktokenCache[2].encoding] = [name |-> "cl100k_base", freed |-> FALSE]

\* every entry of the cache is, after the step, still the entry of its key,
\* with the encoder and the loadedAt it had
EntriesStay ==
  \A i \in 1..Len(tiktokenCache) :
    \E j \in 1..Len(tiktokenCache') :
      /\ tiktokenCache'[j].key = tiktokenCache[i].key
      /\ tiktokenCache'[j].encoding = tiktokenCache[i].encoding
      /\ tiktokenCache'[j].loadedAt = tiktokenCache[i].loadedAt

\* C22: entries leave the cache in clearTokenizerCache only.  Every step
\* that is not a clearTokenizerCache keeps every key of the cache, with the
\* encoder and the loadedAt stored for it, whatever Date.now() returns.
C22_RemovedOnlyByClear ==
  [][clearTokenizerCache_call \/ EntriesStay]_vars

\* no clearTokenizerCache has removed an entry: the entry "gpt-4" stored at
\* time 0 is as it was after an entry was stored at time MaxClock and after
\* a hit by "GPT-4"
C22_Witness ==
  \E c \in DOMAIN calls :
    /\ Done(c, "loadTiktoken")
    /\ calls[c].model = GPT_4
    /\ Len(tiktokenCache) = 2
    /\ Len(encodings) = 2
    /\ tiktokenCache[1] = [key |-> gpt_4, encoding |-> 1, model |-> gpt_4, loadedAt |-> 0]
    /\ tiktokenCache[2].loadedAt = MaxClock
    /\ calls[c].encoding = 1

\* the call has settled after its load for the key was rejected
LoadFailed(call, key) ==
  /\ call.pc = "done"
  /\ call.loadThrew
  /\ call.op \in {"countTokensWithTiktoken", "countTokensAuto", "countChatTokens"}
  /\ call.strategy # "llama"
  /\ HandleKey(call) = key

\* the call has settled after loadLlamaTokenizer was rejected
LlamaLoadFailed(call) ==
  /\ call.pc = "done"
  /\ call.loadThrew
  /\ IsLlamaRequest(call)

\* C23: no retry.  A call of a counting function loads once, in its first
\* turn, building at most one encoder; its later turns touch neither the
\* caches nor the encoders.  A rejected load is handled once: the strategies
\* and the router return the estimate, countChatTokens rejects.  Nothing
\* records the failure: a later call for the same key, or for the
\* singleton, calls get_encoding again and gets an encoder when it succeeds.
C23_NoRetry ==
  /\ [](\A c \in DOMAIN calls :
          /\ calls[c].loads <= 1
          /\ (calls[c].pc = "done" /\ calls[c].loadThrew) =>
               IF calls[c].op = "countChatTokens"
               THEN calls[c].out = "threw" /\ calls[c].tokens = NoTokens
               ELSE calls[c].out = "returned" /\ calls[c].tokens = Estimate(calls[c].text))
  /\ [][\A c \in DOMAIN calls :
          OwnStep(c) =>
            IF CanStart(c)
            THEN /\ calls'[c].loads = 1
                 /\ Len(encodings') <= Len(encodings) + 1
            ELSE /\ calls'[c].loads = calls[c].loads
                 /\ encodings' = encodings
                 /\ tiktokenCache' = tiktokenCache
                 /\ llamaTokenizerCache' = llamaTokenizerCache]_vars
  /\ [][\A c \in DOMAIN calls, model \in {gpt_4, GPT_4} :
          ( /\ LoadFailed(calls[c], KeyOf[model])
            /\ countTokensWithTiktoken_call(c, SampleText(3), model, TRUE, 0) )
          => /\ ~calls'[c].loadThrew
             /\ ~MapHas(tiktokenCache, KeyOf[model]) =>
                  /\ Len(encodings') = Len(encodings) + 1
                  /\ calls'[c].encoding = Len(encodings')]_vars
  /\ [][\A c \in DOMAIN calls :
          ( /\ LlamaLoadFailed(calls[c])
            /\ countTokensWithLlama_call(c, SampleText(3), TRUE) )
          => /\ ~calls'[c].loadThrew
             /\ ~llamaTokenizerCache.loaded =>
                  /\ Len(encodings') = Len(encodings) + 1
                  /\ calls'[c].encoding = Len(encodings')]_vars

\* the load for "gpt-4" was rejected in the first caller's call, which
\* returned the estimate; no entry can have existed then, so the second
\* caller's call for "gpt-4" came later, called get_encoding again and holds
\* the one encoder built
C23_Witness ==
  /\ Done(1, "countTokensWithTiktoken")
  /\ calls[1].model = gpt_4
  /\ calls[1].loadThrew
  /\ calls[1].out = "returned"
  /\ calls[1].tokens = Estimate(SampleText(3))
  /\ calls[2].op = "countChatTokens"
  /\ calls[2].model = gpt_4
  /\ ~calls[2].loadThrew
  /\ calls[2].encoding = 1
  /\ Len(encodings) = 1
  /\ tiktokenCache[1].key = gpt_4

\* the same for the singleton: a rejected loadLlamaTokenizer, then a call
\* that built the singleton
C23_WitnessLlama ==
  /\ Done(1, "countTokensWithLlama")
  /\ calls[1].loadThrew
  /\ calls[2].op = "countTokensAuto"
  /\ calls[2].model = llama_2_7b
  /\ ~calls[2].loadThrew
  /\ llamaTokenizerCache = [loaded |-> TRUE, encoding |-> calls[2].encoding]

\* the call is suspended at its await with the encoder loadTiktoken gave
\* it, and its next turn calls encode on that encoder
EncodesNext(call) ==
  /\ call.pc = "encode"
  /\ ~call.loadThrew
  /\ \/ call.op \in {"countTokensWithTiktoken", "assertEncodeDecodeRoundtrip"}
     \/ call.op = "countChatTokens" /\ Len(call.messages) > 0

\* C24: no use after release.  With clearTokenizerCache running at any
\* moment between the turns of the calls, a call that resumes after its
\* await never calls encode or decode on an encoder that
\* clearTokenizerCache has freed.
C24_NoUseAfterRelease ==
  [][\A c \in DOMAIN calls :
       (OwnStep(c) /\ EncodesNext(calls[c])) => ~encodings[calls[c].encoding].freed]_vars

\* the entries that hold the encoder h, and whether the singleton holds it
HoldersOf(h) == {i \in 1..Len(tiktokenCache) : tiktokenCache[i].encoding = h}
SingletonHolds(h) == llamaTokenizerCache.loaded /\ llamaTokenizerCache.encoding = h

\* C25: no encoder leaks.  Right after a clearTokenizerCache, free() has
\* been called on every encoder that an entry or the singleton held when it
\* started: the encoder is released, or it is the encoder of an entry whose
\* free() threw.
C25_NoLeak ==
  [][\A failing \in SUBSET (1..Len(tiktokenCache)) :
       clearTokenizerCache_step(failing) =>
         \A h \in 1..Len(encodings) :
           (HoldersOf(h) # {} \/ SingletonHolds(h)) =>
             (encodings'[h].freed \/ HoldersOf(h) \cap failing # {})]_vars

\* the load or the encode of the call failed
Failed(call) == call.loadThrew \/ call.encodeThrew

\* C26: the singleton is built around the scheme that is the default of
\* loadTiktoken.  For a text counted by countTokensWithLlama and by
\* countTokensWithTiktoken with an identifier that resolves to cl100k_base,
\* the two counts are equal when neither call failed, and both are the
\* estimate when both failed.
C26_ApproximateIsDefault ==
  \A c, d \in DOMAIN calls :
    ( /\ Done(c, "countTokensWithTiktoken")
      /\ Done(d, "countTokensWithLlama")
      /\ calls[c].text = calls[d].text
      /\ NameOf[calls[c].model] = "cl100k_base" )
    => /\ (~Failed(calls[c]) /\ ~Failed(calls[d])) => calls[c].tokens = calls[d].tokens
       /\ (Failed(calls[c]) /\ Failed(calls[d])) =>
            /\ calls[c].tokens = calls[d].tokens
            /\ calls[c].tokens = Estimate(calls[c].text)

\* the longest text was counted for "claude" and by the approximate
\* strategy without a failure: both counts are its three cl100k_base tokens,
\* which is not the estimate
C26_Witness ==
  /\ Done(1, "countTokensWithTiktoken")
  /\ Done(2, "countTokensWithLlama")
  /\ calls[1].model = claude
  /\ calls[1].text = SampleText(MaxTextLen)
  /\ calls[2].text = SampleText(MaxTextLen)
  /\ ~Failed(calls[1])
  /\ ~Failed(calls[2])
  /\ calls[1].tokens = calls[2].tokens
  /\ calls[1].tokens # Estimate(SampleText(MaxTextLen))

\* both calls failed and returned the estimate of the text
C26_WitnessFallback ==
  /\ Done(1, "countTokensWithTiktoken")
  /\ Done(2, "countTokensWithLlama")
  /\ calls[1].model = gpt_4
  /\ calls[1].text = SampleText(MaxTextLen)
  /\ calls[2].text = SampleText(MaxTextLen)
  /\ calls[1].encodeThrew
  /\ calls[2].loadThrew
  /\ calls[1].tokens = calls[2].tokens

====
